---- MODULE Spec2Model ----
(***************************************************************************)
(* Order lifecycle, order store and table registry of the restaurant       *)
(* management system (server/storage.ts, server/routes.ts, shared/schema.ts *)
(* and the kitchen display page).                                           *)
(*                                                                          *)
(* Three specifications share the module:                                   *)
(*   Spec         the order store: menu items, the createOrder transaction, *)
(*                the readers, the status and priority routes;              *)
(*   SpecTables   the table registry: the create/update/status/delete       *)
(*                routes over the tables relation with its unique column;   *)
(*   SpecKitchen  the kitchen display's filter and sort of a fetched list.  *)
(* Each specification leaves the other parts' variables unchanged.          *)
(***************************************************************************)
EXTENDS Integers, Sequences, FiniteSets, TLC

(***************************************************************************)
(* Bounds of the model.                                                     *)
(***************************************************************************)
\* order ids the orders_id_seq sequence may hand out
MaxOrders == 2
\* line items in one create-order request
MaxItems == 2
\* table ids the tables_id_seq sequence may hand out
MaxTables == 3
\* table numbers the requests choose from
MaxTableNumber == 2
\* orders in one answer of GET /api/orders to the kitchen display
MaxDisplay == 3
\* the last instant of the browser's clock
MaxClock == 3
\* menu item ids the menu_items_id_seq sequence may hand out
MaxMenu == 1

\* rows of the customers relation
MaxCustomers == 3

\* quantity of one cart item
MaxQuantity == 2

\* tables on the table map
MaxLayout == 3

VARIABLES
  menuItems,      \* menu_items relation: id -> [price]
  menuSeq,        \* next value of menu_items_id_seq
  orders,         \* orders relation (committed rows): id -> row
  orderItems,     \* order_items relation (committed rows): set of rows
  ordersSeq,      \* next value of orders_id_seq
  orderItemsSeq,  \* next value of order_items_id_seq
  tx,             \* the createOrder transaction in flight
  reader,         \* the getOrder call in flight (between its two selects)
  resp,           \* the response the last handler step sent
  submitted       \* history: order id -> the orderItems array of the request
                  \* whose transaction inserted it (dropped when it rolls back)

orderVars == <<menuItems, menuSeq, orders, orderItems, ordersSeq,
               orderItemsSeq, tx, reader, resp, submitted>>

VARIABLES
  tables,         \* tables relation: id -> [tableNumber, status, isActive, customerName]
  tablesSeq,      \* next value of tables_id_seq
  creq,           \* the POST /api/tables requests: slot -> position and outcome
  tableResp,      \* the response the last table handler step sent
  retired         \* history: the numbers of the rows deleteTable soft-deleted

tableVars == <<tables, tablesSeq, creq, tableResp, retired>>

VARIABLES
  fetched,        \* the kitchen display's query data: GET /api/orders' answer
  sortBy,         \* the kitchen display's sort mode
  shown,          \* the cards the kitchen display renders, in order
  now,            \* the browser's clock
  overdue         \* the last render: its time and each card's overdue badge

kitchenVars == <<fetched, sortBy, shown, now, overdue>>

VARIABLES
  sreq,           \* the PATCH /api/orders/:id/status requests in flight: slot -> position and outcome
  lastWrite       \* history: order id -> the slot whose UPDATE was applied last (0: none)

raceVars == <<sreq, lastWrite>>

VARIABLES
  customers,      \* customers relation: id -> [name, tableNumber, lastVisit]
  customersSeq,   \* next value of customers_id_seq
  csearch,        \* the GET /api/customers/search request between its two statements
  custResp,       \* the response the last customer handler step sent
  clock           \* the server's clock

custVars == <<customers, customersSeq, csearch, custResp, clock>>

VARIABLES
  cart,           \* CartState.items: sequence of [menuItem, quantity]
  orderType,      \* the cart form's order type
  isSubmitting,   \* the cart's isSubmitting flag
  press,          \* the Place Order presses: slot -> position of handleCheckout and of its mutation
  latest          \* the slot of the mutation the observer tracks (0: none)

cartVars == <<cart, orderType, isSubmitting, press, latest>>

VARIABLES
  proposed,       \* the kitchen display's advance buttons: card id -> getNextStatus of its status
  layout,         \* the table map's tables query data: sequence of [positionX, positionY, width, height]
  position        \* the position the table map chose for the last table it created

pageVars == <<proposed, layout, position>>

vars == <<orderVars, tableVars, kitchenVars, raceVars, custVars, cartVars, pageVars>>

(***************************************************************************)
(* shared/schema.ts                                                         *)
(***************************************************************************)
orderStatuses == <<"pending", "confirmed", "preparing", "ready", "completed", "cancelled">>

orderPriorities == <<"low", "medium", "high", "urgent">>

orderTypes == <<"dine_in", "takeaway">>

staffRoles == {"manager", "chef", "server", "kitchen_staff"}

Range(s) == {s[i] : i \in DOMAIN s}

\* the function f without the argument k
Without(f, k) == [x \in DOMAIN f \ {k} |-> f[x]]

\* callers: a session with one of the staff roles, or no session at all
Callers == staffRoles \cup {"anonymous"}

\* no response sent by the step (the handler is suspended at an await)
NoResp == [code |-> 0]

(***************************************************************************)
(* Request inputs.                                                          *)
(***************************************************************************)
\* <<quantity, price>> of a submitted line item; a quantity of 0 is invalid
ItemAmounts == {<<2, 500>>, <<1, 350>>, <<0, 500>>}

ItemChoices ==
  {[menuItemId |-> m, quantity |-> a[1], price |-> a[2]] :
     m \in 1..MaxMenu, a \in ItemAmounts}

SeqsUpTo(S, n) == UNION {[1..k -> S] : k \in 0..n}

\* the orderItems array of a POST /api/orders body
OrderBodies == SeqsUpTo(ItemChoices, MaxItems)

\* a POST /api/orders body without tableNumber (the column is then NULL)
NoTable == 0

\* the fields of a POST /api/orders body besides orderItems: orderType (one
\* value outside the enum), tableNumber, totalAmount, and the status and
\* priority a caller may try to send ("" when the body has none)
OrderHeads ==
  [orderType : Range(orderTypes) \cup {"delivery"}, tableNumber : {NoTable, 1},
   totalAmount : {0}, status : {""}, priority : {""}]
  \cup
  [orderType : Range(orderTypes), tableNumber : {NoTable, 1},
   totalAmount : {0}, status : {"completed"}, priority : {"urgent"}]

\* the body the order pages send for a takeaway order
PlainHead ==
  [orderType |-> "takeaway", tableNumber |-> NoTable, totalAmount |-> 0,
   status |-> "", priority |-> ""]

\* price (in dollars) of a POST /api/menu body
MenuDollars == {5}

\* price of a PATCH /api/menu/:id body (stored as sent)
MenuPatchPrices == {650}

\* status values a PATCH body may carry: the enum, one value outside it and
\* "" for a body without status (undefined and "" are both falsy)
StatusInputs == Range(orderStatuses) \cup {"served", ""}

PriorityInputs == Range(orderPriorities) \cup {"asap"}

\* a null estimated_ready_time (the instants are 1, 2, ...)
NullTime == 0

\* estimatedReadyTime of a PATCH body: missing, or an instant
EstimateInputs == {NullTime, 2}

OrderIds == 1..MaxOrders

(***************************************************************************)
(* server/auth.ts (requireAuth, requireRole): 0 when the caller passes,     *)
(* else the status code of the refusal.                                     *)
(***************************************************************************)
requireAuth(caller) == IF caller = "anonymous" THEN 401 ELSE 0

requireRole(allowed, caller) ==
  IF caller = "anonymous" THEN 401
  ELSE IF caller \notin allowed THEN 403
  ELSE 0

kitchenRoles == {"manager", "chef", "kitchen_staff"}

menuRoles == {"manager", "chef"}

(***************************************************************************)
(* shared/schema.ts: insertOrderItemSchema / insertOrderSchema.             *)
(***************************************************************************)
insertOrderSchemaOk(body) ==
  \A i \in DOMAIN body : body[i].quantity >= 1 /\ body[i].price >= 0

\* insertOrderSchema on the other fields: orderType is of the enum,
\* tableNumber is optional and at least 1, totalAmount is at least 0; status
\* and priority are omitted from the schema, so the parse drops them from
\* its result
insertOrderHeadOk(head) ==
  /\ head.orderType \in Range(orderTypes)
  /\ head.tableNumber = NoTable \/ head.tableNumber >= 1
  /\ head.totalAmount >= 0

\* insertMenuItemSchema: dollars are converted to cents, Math.round(price * 100)
dollarsToCents(price) == price * 100

(***************************************************************************)
(* The database.  A statement outside a transaction sees committed rows     *)
(* only; the rows a transaction wrote become visible together at COMMIT     *)
(* and are discarded together at ROLLBACK.                                  *)
(***************************************************************************)
\* orders relation after COMMIT of a transaction that inserted `row`
Commit(committed, row) == (row.id :> row) @@ committed

\* (mutant) the order insert is not part of a transaction: a failure of the
\* line-item insert leaves the order row behind
RollbackKeepsOrder(committed, row) == Commit(committed, row)

\* orders relation after ROLLBACK of a transaction that inserted `row`
Rollback(committed, row) == committed

\* (mutant) a select sees the order row of the transaction still open
ReadOrdersDirty == IF tx.pc = "idle" THEN orders ELSE Commit(orders, tx.row)

\* what a select outside the transaction reads
ReadOrders == orders

ReadOrderItems == orderItems

\* order_items.menu_item_id REFERENCES menu_items(id)
ForeignKeyOk(body) == \A i \in DOMAIN body : body[i].menuItemId \in DOMAIN menuItems

\* the line-item rows of order `id`
ItemsOf(rows, id) == {r \in rows : r.orderId = id}

\* menu item ids the open transaction's inserted rows hold key-share locks on
LockedMenuIds == IF tx.pc = "items" THEN {r.menuItemId : r \in tx.rows} ELSE {}

(***************************************************************************)
(* The auth middleware runs before the route's handler: a caller it refuses *)
(* gets 401 or 403 and the handler is never entered.                        *)
(***************************************************************************)
\* the routes behind requireAuth
AuthRoutes == {"createOrder", "priority", "estimatedTime"}

\* (mutant) the status route admits every staff role
RouteRolesStatusForStaff ==
  [getOrder |-> kitchenRoles, getOrders |-> kitchenRoles, status |-> staffRoles,
   createMenuItem |-> menuRoles, updateMenuItem |-> menuRoles,
   deleteMenuItem |-> menuRoles]

\* the routes behind requireRole, with the roles they name
RouteRoles ==
  [getOrder |-> kitchenRoles, getOrders |-> kitchenRoles, status |-> kitchenRoles,
   createMenuItem |-> menuRoles, updateMenuItem |-> menuRoles,
   deleteMenuItem |-> menuRoles]

Routes == AuthRoutes \cup DOMAIN RouteRoles

RouteGuard(route, caller) ==
  IF route \in AuthRoutes THEN requireAuth(caller)
  ELSE requireRole(RouteRoles[route], caller)

Allowed(route, caller) == RouteGuard(route, caller) = 0

\* some caller passes the route's middleware (a handler does not read who)
SomeAllowed(route) == {caller \in Callers : Allowed(route, caller)} # {}

AuthRefuse(route, caller) ==
  /\ ~Allowed(route, caller)
  /\ resp' = [code |-> RouteGuard(route, caller)]
  /\ UNCHANGED <<menuItems, menuSeq, orders, orderItems, ordersSeq,
                 orderItemsSeq, tx, reader, submitted>>

(***************************************************************************)
(* DatabaseStorage.createOrder, called by POST /api/orders.                 *)
(***************************************************************************)
\* (mutant) status and priority are taken from the body when it has them
NewOrderRowFromBody(id, head) ==
  [id |-> id, orderType |-> head.orderType, tableNumber |-> head.tableNumber,
   totalAmount |-> head.totalAmount,
   status |-> IF head.status = "" THEN "pending" ELSE head.status,
   priority |-> IF head.priority = "" THEN "medium" ELSE head.priority,
   createdAt |-> id]

\* the row of tx.insert(orders).values({...}).returning(): orderType,
\* tableNumber and totalAmount from the request, status "pending", and the
\* column defaults (priority medium, created_at now, the next id of the
\* sequence)
NewOrderRow(id, head) ==
  [id |-> id, orderType |-> head.orderType, tableNumber |-> head.tableNumber,
   totalAmount |-> head.totalAmount,
   status |-> "pending", priority |-> "medium", createdAt |-> id]

\* the handler up to the transaction's first insert (a step of Next is the
\* handler run for some caller the middleware lets through)
BeginCreateOrderWith(head, body) ==
  /\ tx.pc = "idle"
  /\ ordersSeq <= MaxOrders
  /\ IF ~(insertOrderHeadOk(head) /\ insertOrderSchemaOk(body))
     THEN /\ resp' = [code |-> 400]
          /\ UNCHANGED <<tx, ordersSeq, submitted>>
     ELSE /\ tx' = [pc |-> "order", head |-> head, body |-> body,
                    row |-> NewOrderRow(ordersSeq, head)]
          /\ ordersSeq' = ordersSeq + 1
          /\ submitted' = (ordersSeq :> body) @@ submitted
          /\ resp' = NoResp
  /\ UNCHANGED <<menuItems, menuSeq, orders, orderItems, orderItemsSeq, reader>>

\* the same for a takeaway order's body
BeginCreateOrder(body) == BeginCreateOrderWith(PlainHead, body)

\* (mutant) the line item is priced from the menu, not from the request
ItemRowMenuPrice(rowId, orderId, item) ==
  [id |-> rowId, orderId |-> orderId, menuItemId |-> item.menuItemId,
   quantity |-> item.quantity, price |-> menuItems[item.menuItemId].price]

\* the order_items row createOrder builds from a submitted line item
ItemRow(rowId, orderId, item) ==
  [id |-> rowId, orderId |-> orderId, menuItemId |-> item.menuItemId,
   quantity |-> item.quantity, price |-> item.price]

\* tx.insert(orderItems).values(...): throws on an empty array and on a
\* foreign-key violation, and the transaction is rolled back
TxInsertItems ==
  /\ tx.pc = "order"
  /\ IF tx.body = <<>>
     THEN /\ orders' = Rollback(orders, tx.row)
          /\ tx' = [pc |-> "idle"]
          /\ resp' = [code |-> 500]
          /\ submitted' = Without(submitted, tx.row.id)
          /\ UNCHANGED orderItemsSeq
     ELSE IF ~ForeignKeyOk(tx.body)
     THEN /\ orders' = Rollback(orders, tx.row)
          /\ tx' = [pc |-> "idle"]
          /\ resp' = [code |-> 500]
          /\ submitted' = Without(submitted, tx.row.id)
          /\ orderItemsSeq' = orderItemsSeq + Len(tx.body)
     ELSE /\ tx' = [pc |-> "items", head |-> tx.head, body |-> tx.body, row |-> tx.row,
                    rows |-> {ItemRow(orderItemsSeq + i - 1, tx.row.id, tx.body[i]) :
                                i \in DOMAIN tx.body}]
          /\ orderItemsSeq' = orderItemsSeq + Len(tx.body)
          /\ resp' = NoResp
          /\ UNCHANGED <<orders, submitted>>
  /\ UNCHANGED <<menuItems, menuSeq, orderItems, ordersSeq, reader>>

TxCommit ==
  /\ tx.pc = "items"
  /\ orders' = Commit(orders, tx.row)
  /\ orderItems' = orderItems \cup tx.rows
  /\ tx' = [pc |-> "idle"]
  /\ resp' = [code |-> 201, order |-> tx.row, head |-> tx.head]
  /\ UNCHANGED <<menuItems, menuSeq, ordersSeq, orderItemsSeq, reader, submitted>>

(***************************************************************************)
(* DatabaseStorage.getOrder, called by GET /api/orders/:id: two selects.    *)
(***************************************************************************)
\* order_items of order `id` INNER JOIN menu_items
JoinItems(id) ==
  {[orderItem |-> r, menuItem |-> [id |-> r.menuItemId,
                                   price |-> menuItems[r.menuItemId].price]] :
     r \in {x \in ItemsOf(ReadOrderItems, id) : x.menuItemId \in DOMAIN menuItems}}

SelectOrder(id) ==
  /\ reader.pc = "idle"
  /\ IF id \notin DOMAIN ReadOrders
     THEN /\ resp' = [code |-> 404]
          /\ UNCHANGED reader
     ELSE /\ reader' = [pc |-> "items", id |-> ReadOrders[id].id]
          /\ resp' = NoResp
  /\ UNCHANGED <<menuItems, menuSeq, orders, orderItems, ordersSeq,
                 orderItemsSeq, tx, submitted>>

GetOrderJoin ==
  /\ reader.pc = "items"
  /\ resp' = [code |-> 200, id |-> reader.id, items |-> JoinItems(reader.id)]
  /\ reader' = [pc |-> "idle"]
  /\ UNCHANGED <<menuItems, menuSeq, orders, orderItems, ordersSeq,
                 orderItemsSeq, tx, submitted>>

(***************************************************************************)
(* DatabaseStorage.getActiveOrders / getCompletedOrders: one select each,   *)
(* orders LEFT JOIN order_items LEFT JOIN menu_items, grouped by order and  *)
(* ordered by createdAt.                                                    *)
(***************************************************************************)
\* (mutant) the WHERE clause forgets 'ready'
activeStatusesWithoutReady == {"pending", "confirmed", "preparing"}

activeStatuses == {"pending", "confirmed", "preparing", "ready"}

completedStatuses == {"completed", "cancelled"}

JsonNull == [null |-> TRUE]

\* json_agg(CASE WHEN order_items.id IS NOT NULL THEN json_build_object(...) END):
\* an order without line items aggregates its one all-NULL joined row to [null]
AggItems(id) ==
  IF ItemsOf(ReadOrderItems, id) = {}
  THEN {JsonNull}
  ELSE {[id |-> r.id, orderId |-> r.orderId, quantity |-> r.quantity,
         price |-> r.price,
         menuItem |-> IF r.menuItemId \in DOMAIN menuItems
                      THEN [id |-> r.menuItemId, price |-> menuItems[r.menuItemId].price]
                      ELSE JsonNull] : r \in ItemsOf(ReadOrderItems, id)}

RECURSIVE ByCreatedAt(_)
\* the rows of S as a sequence in ascending createdAt (ties by id)
ByCreatedAt(S) ==
  IF S = {} THEN <<>>
  ELSE LET first == CHOOSE r \in S : \A q \in S :
                      \/ r.createdAt < q.createdAt
                      \/ (r.createdAt = q.createdAt /\ r.id <= q.id)
       IN <<first>> \o ByCreatedAt(S \ {first})

OrdersWithStatus(statuses) ==
  LET rows == {ReadOrders[i] : i \in {j \in DOMAIN ReadOrders : ReadOrders[j].status \in statuses}}
      sorted == ByCreatedAt(rows)
  IN [k \in DOMAIN sorted |-> [order |-> sorted[k], items |-> AggItems(sorted[k].id)]]

getActiveOrders == OrdersWithStatus(activeStatuses)

getCompletedOrders == OrdersWithStatus(completedStatuses)

\* GET /api/orders?type=... and GET /api/orders/history
ListOrders(type) ==
  /\ resp' = [code |-> 200, type |-> type,
              orders |-> IF type = "history" THEN getCompletedOrders
                         ELSE getActiveOrders]
  /\ UNCHANGED <<menuItems, menuSeq, orders, orderItems, ordersSeq,
                 orderItemsSeq, tx, reader, submitted>>

(***************************************************************************)
(* PATCH /api/orders/:id/status and DatabaseStorage.updateOrderStatus.      *)
(***************************************************************************)
StatusRank(status) == CHOOSE i \in DOMAIN orderStatuses : orderStatuses[i] = status

\* (mutant) a transition table: only forward moves are written
updateOrderStatusForwardOnly(rel, id, status) ==
  IF StatusRank(status) > StatusRank(rel[id].status)
  THEN [rel EXCEPT ![id].status = status]
  ELSE rel

\* UPDATE orders SET status WHERE id RETURNING *
updateOrderStatus(rel, id, status) == [rel EXCEPT ![id].status = status]

\* (mutant) only a missing status is refused: the enum is not consulted
patchStatusCodePresenceOnly(id, status) ==
  IF status = "" THEN 400
  ELSE IF id \notin DOMAIN orders THEN 500
  ELSE 200

\* the status code the handler answers: 400 for a status outside the enum;
\* updateOrderStatus throws "Order not found" for an id without a row and the
\* route's catch answers 500 (its own 404 branch is never reached)
patchStatusCode(id, status) ==
  IF status = "" \/ status \notin Range(orderStatuses) THEN 400
  ELSE IF id \notin DOMAIN orders THEN 500
  ELSE 200

\* the answer carries the updated row; from and to record the row's status
\* before the update and the status the request asked for
SetOrderStatus(id, status) ==
  /\ IF patchStatusCode(id, status) # 200
     THEN /\ resp' = IF patchStatusCode(id, status) = 400
                      THEN [code |-> 400, validStatuses |-> orderStatuses]
                      ELSE [code |-> patchStatusCode(id, status)]
          /\ UNCHANGED orders
     ELSE /\ orders' = updateOrderStatus(orders, id, status)
          /\ resp' = [code |-> 200, order |-> orders'[id],
                      from |-> orders[id].status, to |-> status]
  /\ UNCHANGED <<menuItems, menuSeq, orderItems, ordersSeq, orderItemsSeq,
                 tx, reader, submitted>>

(***************************************************************************)
(* PATCH /api/orders/:id/priority.                                          *)
(***************************************************************************)
\* the methods of class DatabaseStorage that the order routes may call
StorageMethods ==
  {"createOrder", "getOrder", "updateOrderStatus", "getOrdersByStatus",
   "getActiveOrders", "getCompletedOrders"}

SetOrderPriority(id, priority) ==
  /\ IF priority \notin {"low", "medium", "high", "urgent"}
     THEN /\ resp' = [code |-> 400]
          /\ UNCHANGED orders
     ELSE IF "updateOrder" \notin StorageMethods
     \* storage.updateOrder is not a function: the TypeError is caught, 500
     THEN /\ resp' = [code |-> 500]
          /\ UNCHANGED orders
     ELSE IF id \notin DOMAIN orders
     THEN /\ resp' = [code |-> 500]
          /\ UNCHANGED orders
     ELSE /\ orders' = [orders EXCEPT ![id].priority = priority]
          /\ resp' = [code |-> 200, order |-> orders'[id]]
  /\ UNCHANGED <<menuItems, menuSeq, orderItems, ordersSeq, orderItemsSeq,
                 tx, reader, submitted>>

(***************************************************************************)
(* PATCH /api/orders/:id/estimated-time.                                    *)
(***************************************************************************)
SetEstimatedTime(id, time) ==
  /\ IF time = NullTime
     THEN /\ resp' = [code |-> 400]
          /\ UNCHANGED orders
     ELSE IF "updateOrder" \notin StorageMethods
     \* storage.updateOrder is not a function: the TypeError is caught, 500
     THEN /\ resp' = [code |-> 500]
          /\ UNCHANGED orders
     ELSE IF id \notin DOMAIN orders
     THEN /\ resp' = [code |-> 500]
          /\ UNCHANGED orders
     ELSE /\ orders' = [orders EXCEPT ![id] = [estimatedReadyTime |-> time] @@ @]
          /\ resp' = [code |-> 200, order |-> orders'[id]]
  /\ UNCHANGED <<menuItems, menuSeq, orderItems, ordersSeq, orderItemsSeq,
                 tx, reader, submitted>>

\* the route: the middleware, then the handler
PatchOrderPriority(caller, id, priority) ==
  /\ Allowed("priority", caller)
  /\ SetOrderPriority(id, priority)

(***************************************************************************)
(* Menu routes: POST / PATCH / DELETE /api/menu.                            *)
(***************************************************************************)
CreateMenuItem(dollars) ==
  /\ menuSeq <= MaxMenu
  /\ menuItems' = (menuSeq :> [price |-> dollarsToCents(dollars)]) @@ menuItems
  /\ menuSeq' = menuSeq + 1
  /\ resp' = [code |-> 201]
  /\ UNCHANGED <<orders, orderItems, ordersSeq, orderItemsSeq, tx, reader, submitted>>

\* (mutant) the new price is also written into the order lines of the item
UpdateMenuItemCascade(id, price) ==
  /\ IF id \notin DOMAIN menuItems
     THEN /\ resp' = [code |-> 404]
          /\ UNCHANGED <<menuItems, orderItems>>
     ELSE /\ menuItems' = [menuItems EXCEPT ![id].price = price]
          /\ orderItems' = {IF r.menuItemId = id
                             THEN [r EXCEPT !.price = price] ELSE r :
                             r \in orderItems}
          /\ resp' = [code |-> 200]
  /\ UNCHANGED <<menuSeq, orders, ordersSeq, orderItemsSeq, tx, reader,
                 submitted>>

\* the body is stored as sent: no schema, no conversion
UpdateMenuItem(id, price) ==
  /\ IF id \notin DOMAIN menuItems
     THEN /\ resp' = [code |-> 404]
          /\ UNCHANGED menuItems
     ELSE /\ menuItems' = [menuItems EXCEPT ![id].price = price]
          /\ resp' = [code |-> 200]
  /\ UNCHANGED <<menuSeq, orders, orderItems, ordersSeq, orderItemsSeq, tx,
                 reader, submitted>>

\* whether DELETE FROM menu_items WHERE id succeeds: the row exists and no
\* order_items row references it
deleteMenuItemOk(id) ==
  /\ id \in DOMAIN menuItems
  /\ \A r \in orderItems : r.menuItemId # id

\* a delete of a row that an open transaction's line items reference waits
\* for that transaction to end
RemoveMenuItem(id) ==
  /\ id \notin LockedMenuIds
  /\ IF ~deleteMenuItemOk(id)
     THEN /\ resp' = [code |-> 404]
          /\ UNCHANGED menuItems
     ELSE /\ menuItems' = Without(menuItems, id)
          /\ resp' = [code |-> 204]
  /\ UNCHANGED <<menuSeq, orders, orderItems, ordersSeq, orderItemsSeq, tx,
                 reader, submitted>>

(***************************************************************************)
(* The order store's specification.                                         *)
(***************************************************************************)
Empty == [x \in {} |-> x]

InitOrderVars ==
  /\ menuItems = Empty
  /\ menuSeq = 1
  /\ orders = Empty
  /\ orderItems = {}
  /\ ordersSeq = 1
  /\ orderItemsSeq = 1
  /\ tx = [pc |-> "idle"]
  /\ reader = [pc |-> "idle"]
  /\ resp = NoResp
  /\ submitted = Empty

NextOrders ==
  \/ /\ \E r \in Routes, c \in Callers : AuthRefuse(r, c)
     /\ UNCHANGED <<tableVars, kitchenVars, raceVars, custVars, cartVars, pageVars>>
  \/ /\ \E b \in OrderBodies : SomeAllowed("createOrder") /\ BeginCreateOrder(b)
     /\ UNCHANGED <<tableVars, kitchenVars, raceVars, custVars, cartVars, pageVars>>
  \/ /\ TxInsertItems
     /\ UNCHANGED <<tableVars, kitchenVars, raceVars, custVars, cartVars, pageVars>>
  \/ /\ TxCommit
     /\ UNCHANGED <<tableVars, kitchenVars, raceVars, custVars, cartVars, pageVars>>
  \/ /\ \E id \in OrderIds : SomeAllowed("getOrder") /\ SelectOrder(id)
     /\ UNCHANGED <<tableVars, kitchenVars, raceVars, custVars, cartVars, pageVars>>
  \/ /\ GetOrderJoin
     /\ UNCHANGED <<tableVars, kitchenVars, raceVars, custVars, cartVars, pageVars>>
  \/ /\ \E t \in {"active", "history"} : SomeAllowed("getOrders") /\ ListOrders(t)
     /\ UNCHANGED <<tableVars, kitchenVars, raceVars, custVars, cartVars, pageVars>>
  \/ /\ \E id \in OrderIds, s \in StatusInputs : SomeAllowed("status") /\ SetOrderStatus(id, s)
     /\ UNCHANGED <<tableVars, kitchenVars, raceVars, custVars, cartVars, pageVars>>
  \/ /\ \E id \in OrderIds, p \in PriorityInputs :
           SomeAllowed("priority") /\ SetOrderPriority(id, p)
     /\ UNCHANGED <<tableVars, kitchenVars, raceVars, custVars, cartVars, pageVars>>
  \/ /\ \E id \in OrderIds, t \in EstimateInputs :
           SomeAllowed("estimatedTime") /\ SetEstimatedTime(id, t)
     /\ UNCHANGED <<tableVars, kitchenVars, raceVars, custVars, cartVars, pageVars>>
  \/ /\ \E d \in MenuDollars : SomeAllowed("createMenuItem") /\ CreateMenuItem(d)
     /\ UNCHANGED <<tableVars, kitchenVars, raceVars, custVars, cartVars, pageVars>>
  \/ /\ \E id \in 1..MaxMenu, p \in MenuPatchPrices :
           SomeAllowed("updateMenuItem") /\ UpdateMenuItem(id, p)
     /\ UNCHANGED <<tableVars, kitchenVars, raceVars, custVars, cartVars, pageVars>>
  \/ /\ \E id \in 1..MaxMenu : SomeAllowed("deleteMenuItem") /\ RemoveMenuItem(id)
     /\ UNCHANGED <<tableVars, kitchenVars, raceVars, custVars, cartVars, pageVars>>

\* order creation alone, over every shape of request body
CreateBodies == SeqsUpTo(ItemChoices, 1)

NextCreate ==
  \/ /\ \E h \in OrderHeads, b \in CreateBodies :
           SomeAllowed("createOrder") /\ BeginCreateOrderWith(h, b)
     /\ UNCHANGED <<tableVars, kitchenVars, raceVars, custVars, cartVars, pageVars>>
  \/ /\ TxInsertItems
     /\ UNCHANGED <<tableVars, kitchenVars, raceVars, custVars, cartVars, pageVars>>
  \/ /\ TxCommit
     /\ UNCHANGED <<tableVars, kitchenVars, raceVars, custVars, cartVars, pageVars>>
  \/ /\ \E d \in MenuDollars : SomeAllowed("createMenuItem") /\ CreateMenuItem(d)
     /\ UNCHANGED <<tableVars, kitchenVars, raceVars, custVars, cartVars, pageVars>>

(***************************************************************************)
(* The table registry: the tables relation (shared/schema.ts) and the       *)
(* /api/tables routes over DatabaseStorage.  Every storage call is one SQL  *)
(* statement; a handler suspends at each await, so the POST handler's two   *)
(* existence checks and its insert are three steps other requests may       *)
(* interleave with.                                                         *)
(***************************************************************************)
tableStatuses == <<"available", "occupied", "reserved">>

CreateSlots == {1, 2}

TableInputNumbers == 0..MaxTableNumber

TableStatusInputs == Range(tableStatuses) \cup {"dirty"}

\* customer_name NULL, and a status body without customerName
NoName == ""

\* customerName of a PATCH /api/tables/:id/status body
TableCustomerNames == {NoName, "Ann"}

\* bodies of PATCH /api/tables/:id, handed to the update as they arrive
TablePatches ==
  {[tableNumber |-> n] : n \in 1..MaxTableNumber} \cup {[isActive |-> TRUE]}

TableRouteRoles ==
  [createTable |-> {"manager"}, updateTable |-> {"manager"},
   tableStatus |-> {"manager", "server"}, deleteTable |-> {"manager"}]

TableAllowed(route, caller) == requireRole(TableRouteRoles[route], caller) = 0

SomeTableAllowed(route) == {caller \in Callers : TableAllowed(route, caller)} # {}

TableAuthRefuse(route, caller) ==
  /\ ~TableAllowed(route, caller)
  /\ tableResp' = [code |-> requireRole(TableRouteRoles[route], caller)]
  /\ UNCHANGED <<tables, tablesSeq, creq, retired>>

\* insertTableSchema: tableNumber is a number of at least 1
insertTableSchemaOk(tableNumber) == tableNumber >= 1

\* select ... where table_number = n limit 1: any row, active or not
tableNumberExists(rel, tableNumber) ==
  {id \in DOMAIN rel : rel[id].tableNumber = tableNumber} # {}

\* (mutant) the column carries no unique constraint
UniqueUnchecked(rel, id, tableNumber) == TRUE

\* table_number ... unique(): the row `id` may carry tableNumber when no
\* other row does
UniqueOk(rel, id, tableNumber) ==
  \A other \in DOMAIN rel \ {id} : rel[other].tableNumber # tableNumber

\* the POST requests past their pre-check, still before their insert
InFlight == {s \in CreateSlots : creq[s].pc # "idle"}

DuplicateAnswer == [code |-> 400, error |-> "duplicate_table_number"]

\* POST /api/tables up to the route's own tableNumberExists
BeginCreateTable(slot, tableNumber) ==
  /\ creq[slot].pc = "idle"
  /\ tablesSeq + Cardinality(InFlight) <= MaxTables
  /\ IF ~insertTableSchemaOk(tableNumber)
     THEN /\ tableResp' = [code |-> 400]
          /\ UNCHANGED creq
     ELSE IF tableNumberExists(tables, tableNumber)
     THEN /\ tableResp' = DuplicateAnswer
          /\ creq' = [creq EXCEPT ![slot] =
                        [pc |-> "idle", tableNumber |-> tableNumber,
                         code |-> 400, id |-> 0, rival |-> FALSE]]
     ELSE /\ tableResp' = [code |-> 0]
          /\ creq' = [s \in CreateSlots |->
               IF s = slot
               THEN [pc |-> "checked", tableNumber |-> tableNumber, code |-> 0,
                     id |-> 0,
                     rival |-> \E t \in InFlight : creq[t].tableNumber = tableNumber]
               ELSE IF s \in InFlight /\ creq[s].tableNumber = tableNumber
               THEN [creq[s] EXCEPT !.rival = TRUE]
               ELSE creq[s]]
  /\ UNCHANGED <<tables, tablesSeq, retired>>

\* DatabaseStorage.createTable up to its insert: the second existence check
CreateTableCheck(slot) ==
  /\ creq[slot].pc = "checked"
  /\ IF tableNumberExists(tables, creq[slot].tableNumber)
     THEN /\ tableResp' = DuplicateAnswer
          /\ creq' = [creq EXCEPT ![slot].pc = "idle", ![slot].code = 400]
     ELSE /\ tableResp' = [code |-> 0]
          /\ creq' = [creq EXCEPT ![slot].pc = "rechecked"]
  /\ UNCHANGED <<tables, tablesSeq, retired>>

\* the insert: the row takes the next id of the sequence (a refused insert
\* has consumed it too); a unique violation is an error whose message is not
\* "duplicate_table_number", which the route answers 500
CreateTableInsert(slot) ==
  /\ creq[slot].pc = "rechecked"
  /\ tablesSeq' = tablesSeq + 1
  /\ IF UniqueOk(tables, tablesSeq, creq[slot].tableNumber)
     THEN /\ tables' = (tablesSeq :> [tableNumber |-> creq[slot].tableNumber,
                                      status |-> "available", isActive |-> TRUE,
                                      customerName |-> NoName])
                         @@ tables
          /\ tableResp' = [code |-> 201]
          /\ creq' = [creq EXCEPT ![slot].pc = "idle", ![slot].code = 201,
                                  ![slot].id = tablesSeq]
     ELSE /\ tableResp' = [code |-> 500]
          /\ creq' = [creq EXCEPT ![slot].pc = "idle", ![slot].code = 500]
          /\ UNCHANGED tables
  /\ UNCHANGED retired

\* the row with the columns the body names set to the body's values
SetColumns(row, patch) ==
  [f \in DOMAIN row |-> IF f \in DOMAIN patch THEN patch[f] ELSE row[f]]

\* PATCH /api/tables/:id over DatabaseStorage.updateTable
UpdateTable(id, patch) ==
  /\ IF id \notin DOMAIN tables
     THEN /\ tableResp' = [code |-> 404]
          /\ UNCHANGED tables
     ELSE IF "tableNumber" \in DOMAIN patch
             /\ ~UniqueOk(tables, id, patch.tableNumber)
     THEN /\ tableResp' = [code |-> 500]
          /\ UNCHANGED tables
     ELSE /\ tables' = [tables EXCEPT ![id] = SetColumns(@, patch)]
          /\ tableResp' = [code |-> 200]
  /\ UNCHANGED <<tablesSeq, creq, retired>>

\* UPDATE tables SET status WHERE id RETURNING *: the method has the
\* parameters id and status
updateTableStatus(rel, id, status) == [rel EXCEPT ![id].status = status]

\* PATCH /api/tables/:id/status: the route hands id, status and the body's
\* customerName to storage.updateTableStatus, which takes the first two
UpdateTableStatus(id, status, customerName) ==
  /\ IF status \notin Range(tableStatuses)
     THEN /\ tableResp' = [code |-> 400]
          /\ UNCHANGED tables
     ELSE IF id \notin DOMAIN tables
     THEN /\ tableResp' = [code |-> 404]
          /\ UNCHANGED tables
     ELSE /\ tables' = updateTableStatus(tables, id, status)
          /\ tableResp' = [code |-> 200]
  /\ UNCHANGED <<tablesSeq, creq, retired>>

\* SELECT * FROM tables WHERE is_active: the ids of the rows returned
getTables(rel) == {id \in DOMAIN rel : rel[id].isActive}

\* SELECT * FROM tables WHERE id: the rows returned (none or one)
getTable(rel, id) == {rel[i] : i \in DOMAIN rel \cap {id}}

\* the table map's tables query: the rows GET /api/tables answers
tablesQuery(rel) == {rel[id] : id \in getTables(rel)}

\* TableMap.findNextAvailableTableNumber over the query's rows: count up
\* from 1 while the number is among theirs
findNextAvailableTableNumber(data) ==
  LET existingNumbers == {t.tableNumber : t \in data}
  IN CHOOSE nextNumber \in 1..(Cardinality(existingNumbers) + 1) :
       /\ nextNumber \notin existingNumbers
       /\ \A n \in 1..(nextNumber - 1) : n \in existingNumbers

\* (mutant) the row is deleted
deleteTableHard(rel, id) == Without(rel, id)

\* UPDATE tables SET is_active = false WHERE id RETURNING *
deleteTable(rel, id) == [rel EXCEPT ![id].isActive = FALSE]

\* DELETE /api/tables/:id over DatabaseStorage.deleteTable
DeleteTable(id) ==
  /\ IF id \notin DOMAIN tables
     THEN /\ tableResp' = [code |-> 404]
          /\ UNCHANGED <<tables, retired>>
     ELSE /\ tables' = deleteTable(tables, id)
          /\ retired' = retired \cup {tables[id].tableNumber}
          /\ tableResp' = [code |-> 204]
  /\ UNCHANGED <<tablesSeq, creq>>

InitTableVars ==
  /\ tables = Empty
  /\ tablesSeq = 1
  /\ creq = [s \in CreateSlots |->
               [pc |-> "idle", tableNumber |-> 0, code |-> 0, id |-> 0,
                rival |-> FALSE]]
  /\ tableResp = [code |-> 0]
  /\ retired = {}

NextTables ==
  \/ /\ \E r \in DOMAIN TableRouteRoles, c \in Callers : TableAuthRefuse(r, c)
     /\ UNCHANGED <<orderVars, kitchenVars, raceVars, custVars, cartVars, pageVars>>
  \/ /\ \E s \in CreateSlots, n \in TableInputNumbers :
           SomeTableAllowed("createTable") /\ BeginCreateTable(s, n)
     /\ UNCHANGED <<orderVars, kitchenVars, raceVars, custVars, cartVars, pageVars>>
  \/ /\ \E s \in CreateSlots : CreateTableCheck(s)
     /\ UNCHANGED <<orderVars, kitchenVars, raceVars, custVars, cartVars, pageVars>>
  \/ /\ \E s \in CreateSlots : CreateTableInsert(s)
     /\ UNCHANGED <<orderVars, kitchenVars, raceVars, custVars, cartVars, pageVars>>
  \/ /\ \E id \in 1..MaxTables, p \in TablePatches :
           SomeTableAllowed("updateTable") /\ UpdateTable(id, p)
     /\ UNCHANGED <<orderVars, kitchenVars, raceVars, custVars, cartVars, pageVars>>
  \/ /\ \E id \in 1..MaxTables, st \in TableStatusInputs :
           \E n \in TableCustomerNames :
             SomeTableAllowed("tableStatus") /\ UpdateTableStatus(id, st, n)
     /\ UNCHANGED <<orderVars, kitchenVars, raceVars, custVars, cartVars, pageVars>>
  \/ /\ \E id \in 1..MaxTables : SomeTableAllowed("deleteTable") /\ DeleteTable(id)
     /\ UNCHANGED <<orderVars, kitchenVars, raceVars, custVars, cartVars, pageVars>>

(***************************************************************************)
(* The kitchen display page: it filters the fetched list to the statuses it *)
(* shows and sorts a copy of it by the chosen mode.                         *)
(***************************************************************************)
\* the rows GET /api/orders answers: active orders in createdAt order
DisplayStatuses == {"pending", "ready"}

\* createdAt values of the fetched rows
CreatedAtValues == {1, 2, 3}

\* the columns of a fetched row besides its id
FetchedColumns ==
  [status : DisplayStatuses, priority : Range(orderPriorities),
   createdAt : CreatedAtValues, estimatedReadyTime : {NullTime}]

\* estimated_ready_time: null or an instant
EstimatedTimes == {NullTime} \cup 1..MaxClock

\* fetched rows that differ in status and estimatedReadyTime
TimedColumns ==
  [status : DisplayStatuses, priority : {"medium"}, createdAt : {1},
   estimatedReadyTime : EstimatedTimes]

\* createdAt does not decrease along the list (orderBy createdAt)
InCreatedAtOrder(l) ==
  \A i \in 1..(Len(l) - 1) : l[i].createdAt <= l[i + 1].createdAt

\* the rows with their ids, given in insertion order
WithIds(l) ==
  [i \in DOMAIN l |-> [id |-> i, status |-> l[i].status,
                       priority |-> l[i].priority, createdAt |-> l[i].createdAt,
                       estimatedReadyTime |-> l[i].estimatedReadyTime]]

\* Array.prototype.filter
RECURSIVE Filter(_, _)
Filter(list, keep) ==
  IF list = <<>> THEN <<>>
  ELSE IF Head(list).status \in keep
       THEN <<Head(list)>> \o Filter(Tail(list), keep)
       ELSE Filter(Tail(list), keep)

activeOrders(list) == Filter(list, {"pending", "confirmed", "preparing"})

\* (mutant) the ranks of medium and low are exchanged
priorityOrderLowBeforeMedium == [urgent |-> 0, high |-> 1, medium |-> 3, low |-> 2]

priorityOrder == [urgent |-> 0, high |-> 1, medium |-> 2, low |-> 3]

\* the comparator handed to sort: negative when a goes before b
compareOrders(a, b, mode) ==
  IF mode = "priority"
  THEN LET priorityDiff == priorityOrder[a.priority] - priorityOrder[b.priority]
       IN IF priorityDiff # 0 THEN priorityDiff ELSE a.createdAt - b.createdAt
  ELSE a.createdAt - b.createdAt

\* x put into a sorted list after every element that does not go after it
RECURSIVE InsertSorted(_, _, _)
InsertSorted(x, list, mode) ==
  IF list = <<>> THEN <<x>>
  ELSE IF compareOrders(x, Head(list), mode) < 0
       THEN <<x>> \o list
       ELSE <<Head(list)>> \o InsertSorted(x, Tail(list), mode)

\* Array.prototype.sort, a stable sort: elements the comparator calls equal
\* keep their order
RECURSIVE SortStable(_, _)
SortStable(list, mode) ==
  IF list = <<>> THEN <<>>
  ELSE InsertSorted(list[Len(list)],
                    SortStable(SubSeq(list, 1, Len(list) - 1), mode), mode)

sortedOrders(list, mode) == SortStable(activeOrders(list), mode)

\* (mutant) an order due exactly now counts as overdue
isOverdueWhenDue(order, time) ==
  order.estimatedReadyTime # NullTime /\ order.estimatedReadyTime <= time

\* order.estimatedReadyTime && new Date(order.estimatedReadyTime) < new Date()
isOverdue(order, time) ==
  order.estimatedReadyTime # NullTime /\ order.estimatedReadyTime < time

\* the badges of one render: a constant of the map callback for each card
Badges(cards, time) ==
  [at |-> time, flags |-> [i \in DOMAIN cards |-> isOverdue(cards[i], time)]]

\* a render of the component with the fetched data
Render ==
  /\ <<shown, overdue>> # <<sortedOrders(fetched, sortBy),
                            Badges(sortedOrders(fetched, sortBy), now)>>
  /\ shown' = sortedOrders(fetched, sortBy)
  /\ overdue' = Badges(shown', now)
  /\ UNCHANGED <<fetched, sortBy, now>>

\* the sort Select's onValueChange, and the render it causes
SetSortBy(value) ==
  /\ sortBy' = value
  /\ shown' = sortedOrders(fetched, value)
  /\ overdue' = Badges(shown', now)
  /\ UNCHANGED <<fetched, now>>

\* time passes in the browser
Tick ==
  /\ now < MaxClock
  /\ now' = now + 1
  /\ UNCHANGED <<fetched, sortBy, shown, overdue>>

\* the component as constructed: no data yet, priority mode
InitKitchenVars ==
  /\ fetched = <<>>
  /\ sortBy = "priority"
  /\ shown = <<>>
  /\ now = 1
  /\ overdue = Badges(<<>>, 1)

\* the component when the query has answered, before the render
InitDisplay ==
  /\ \E n \in 0..MaxDisplay :
       \E l \in [1..n -> FetchedColumns] :
         /\ InCreatedAtOrder(l)
         /\ fetched = WithIds(l)
  /\ sortBy = "priority"
  /\ shown = <<>>
  /\ now = 1
  /\ overdue = Badges(<<>>, 1)

\* the component when the query has answered with rows of any
\* estimatedReadyTime
InitTimed ==
  /\ \E n \in 0..MaxDisplay :
       \E l \in [1..n -> TimedColumns] : fetched = WithIds(l)
  /\ sortBy = "priority"
  /\ shown = <<>>
  /\ now = 1
  /\ overdue = Badges(<<>>, 1)

NextKitchen ==
  \/ /\ Tick
     /\ UNCHANGED <<orderVars, tableVars, raceVars, custVars, cartVars, pageVars>>
  \/ /\ Render
     /\ UNCHANGED <<orderVars, tableVars, raceVars, custVars, cartVars, pageVars>>
  \/ /\ \E v \in {"priority", "time"} : SetSortBy(v)
     /\ UNCHANGED <<orderVars, tableVars, raceVars, custVars, cartVars, pageVars>>

(***************************************************************************)
(* The kitchen display's advance button: getNextStatus of a card's status.  *)
(***************************************************************************)
\* getNextStatus's null
NullStatus == "null"

statusFlow == <<"pending", "confirmed", "preparing", "ready">>

\* Array.prototype.indexOf: the 0-based index of the first occurrence, -1
\* when there is none
indexOf(array, x) ==
  IF \E i \in DOMAIN array : array[i] = x
  THEN (CHOOSE i \in DOMAIN array :
          array[i] = x /\ \A j \in DOMAIN array : array[j] = x => i <= j) - 1
  ELSE -1

getNextStatus(currentStatus) ==
  LET currentIndex == indexOf(statusFlow, currentStatus)
  IN IF currentIndex < Len(statusFlow) - 1
     THEN statusFlow[(currentIndex + 1) + 1]
     ELSE NullStatus

\* rows of every status
AnyStatusColumns ==
  [status : Range(orderStatuses), priority : {"medium"}, createdAt : {1},
   estimatedReadyTime : {NullTime}]

\* getNextStatus applied to the status of the i-th row
Propose(i) ==
  /\ fetched[i].id \notin DOMAIN proposed
  /\ proposed' = (fetched[i].id :> getNextStatus(fetched[i].status)) @@ proposed
  /\ UNCHANGED <<layout, position>>

InitPageVars ==
  /\ proposed = Empty
  /\ layout = <<>>
  /\ position = [x |-> 0, y |-> 0]

NextAdvance ==
  /\ \E i \in DOMAIN fetched : Propose(i)
  /\ UNCHANGED <<orderVars, tableVars, kitchenVars, raceVars, custVars, cartVars>>

(***************************************************************************)
(* The table map (components/table-map.tsx): the position it gives a new    *)
(* table.  The tables query holds the active tables.                        *)
(***************************************************************************)
gridSize == [width |-> 8, height |-> 6]

\* width and height a table form may carry
SpanInputs == {1, 2}

\* the cells of the grid, and a cell's place in the row-major scan (y outer,
\* x inner)
GridCells == (0..(gridSize.width - 1)) \X (0..(gridSize.height - 1))

ScanIndex(cell) == cell[2] * gridSize.width + cell[1]

\* new Set(tables.map(table => `${table.positionX},${table.positionY}`))
occupiedPositions(data) ==
  {<<data[i].positionX, data[i].positionY>> : i \in DOMAIN data}

\* the first cell of the scan that is not among the occupied positions,
\* {x: 0, y: 0} when there is none
findFirstAvailablePosition(data) ==
  LET free == GridCells \ occupiedPositions(data)
  IN IF free = {} THEN [x |-> 0, y |-> 0]
     ELSE LET first == CHOOSE c \in free :
                         \A d \in free : ScanIndex(c) <= ScanIndex(d)
          IN [x |-> first[1], y |-> first[2]]

\* onSubmit and createTableMutation: the new table takes the position found,
\* and the refetched query holds it
CreateTableAt(width, height) ==
  /\ Len(layout) < MaxLayout
  /\ Len(layout) < gridSize.width * gridSize.height
  /\ position' = findFirstAvailablePosition(layout)
  /\ layout' = Append(layout, [positionX |-> position'.x, positionY |-> position'.y,
                               width |-> width, height |-> height])
  /\ UNCHANGED proposed

\* deleteTableMutation: the table leaves the refetched query
RemoveTableAt(i) ==
  /\ layout' = [j \in 1..(Len(layout) - 1) |->
                  IF j < i THEN layout[j] ELSE layout[j + 1]]
  /\ UNCHANGED <<proposed, position>>

NextLayout ==
  \/ /\ \E w \in SpanInputs, h \in SpanInputs : CreateTableAt(w, h)
     /\ UNCHANGED <<orderVars, tableVars, kitchenVars, raceVars, custVars, cartVars>>
  \/ /\ \E i \in DOMAIN layout : RemoveTableAt(i)
     /\ UNCHANGED <<orderVars, tableVars, kitchenVars, raceVars, custVars, cartVars>>

(***************************************************************************)
(* PATCH /api/orders/:id/status as concurrent requests.  The handler        *)
(* validates the body synchronously and suspends at its one await, the      *)
(* single UPDATE of storage.updateOrderStatus; other requests run between   *)
(* the two steps.  Each slot is one request.                                *)
(***************************************************************************)
StatusSlots == {1, 2}

RaceStatusInputs == {"confirmed", "preparing", "cancelled", "served"}

NoSlot == 0

\* the handler up to its await: the 400 answers, else the call of
\* storage.updateOrderStatus is pending; seen is history, the status the
\* order had when the request arrived ("" without a row)
BeginSetStatus(slot, id, status) ==
  /\ sreq[slot].pc = "new"
  /\ sreq' = [sreq EXCEPT ![slot] =
       [pc |-> IF patchStatusCode(id, status) = 400 THEN "done" ELSE "update",
        id |-> id, status |-> status,
        seen |-> IF id \in DOMAIN orders THEN orders[id].status ELSE "",
        code |-> IF patchStatusCode(id, status) = 400 THEN 400 ELSE 0]]
  /\ UNCHANGED <<orderVars, lastWrite>>

\* (mutant) the update applies only to a row whose status is still the one
\* the request saw: otherwise the request is refused with 409
ApplyStatusIfUnchanged(slot) ==
  /\ sreq[slot].pc = "update"
  /\ IF sreq[slot].id \notin DOMAIN orders
     THEN /\ sreq' = [sreq EXCEPT ![slot].pc = "done", ![slot].code = 500]
          /\ UNCHANGED <<orders, lastWrite>>
     ELSE IF orders[sreq[slot].id].status # sreq[slot].seen
     THEN /\ sreq' = [sreq EXCEPT ![slot].pc = "done", ![slot].code = 409]
          /\ UNCHANGED <<orders, lastWrite>>
     ELSE /\ orders' = updateOrderStatus(orders, sreq[slot].id, sreq[slot].status)
          /\ sreq' = [sreq EXCEPT ![slot].pc = "done", ![slot].code = 200]
          /\ lastWrite' = [lastWrite EXCEPT ![sreq[slot].id] = slot]
  /\ UNCHANGED <<menuItems, menuSeq, orderItems, ordersSeq, orderItemsSeq,
                 tx, reader, resp, submitted>>

\* the UPDATE ... RETURNING and the answer: 200 with the row, or the catch's
\* 500 when no row has the id
ApplyStatus(slot) ==
  /\ sreq[slot].pc = "update"
  /\ IF sreq[slot].id \notin DOMAIN orders
     THEN /\ sreq' = [sreq EXCEPT ![slot].pc = "done", ![slot].code = 500]
          /\ UNCHANGED <<orders, lastWrite>>
     ELSE /\ orders' = updateOrderStatus(orders, sreq[slot].id, sreq[slot].status)
          /\ sreq' = [sreq EXCEPT ![slot].pc = "done", ![slot].code = 200]
          /\ lastWrite' = [lastWrite EXCEPT ![sreq[slot].id] = slot]
  /\ UNCHANGED <<menuItems, menuSeq, orderItems, ordersSeq, orderItemsSeq,
                 tx, reader, resp, submitted>>

InitRaceVars ==
  /\ sreq = [s \in StatusSlots |-> [pc |-> "new"]]
  /\ lastWrite = [id \in OrderIds |-> NoSlot]

NextRace ==
  \/ /\ \E b \in CreateBodies :
           SomeAllowed("createOrder") /\ BeginCreateOrder(b)
     /\ UNCHANGED <<tableVars, kitchenVars, raceVars, custVars, cartVars, pageVars>>
  \/ /\ TxInsertItems
     /\ UNCHANGED <<tableVars, kitchenVars, raceVars, custVars, cartVars, pageVars>>
  \/ /\ TxCommit
     /\ UNCHANGED <<tableVars, kitchenVars, raceVars, custVars, cartVars, pageVars>>
  \/ /\ \E d \in MenuDollars : SomeAllowed("createMenuItem") /\ CreateMenuItem(d)
     /\ UNCHANGED <<tableVars, kitchenVars, raceVars, custVars, cartVars, pageVars>>
  \/ /\ \E s \in StatusSlots, id \in OrderIds, st \in RaceStatusInputs :
           SomeAllowed("status") /\ BeginSetStatus(s, id, st)
     /\ UNCHANGED <<tableVars, kitchenVars, custVars, cartVars, pageVars>>
  \/ /\ \E s \in StatusSlots : ApplyStatus(s)
     /\ UNCHANGED <<tableVars, kitchenVars, custVars, cartVars, pageVars>>

(***************************************************************************)
(* Customer profiles: the customers relation (shared/schema.ts) and the     *)
(* routes POST /api/customers and GET /api/customers/search.                *)
(***************************************************************************)
CustomerNames == {"Ann", "Bob"}

\* name of a request ("" when it has none)
CustomerNameInputs == CustomerNames \cup {""}

\* tableNumber of a request (NoTable when it has none)
CustomerTableInputs == {NoTable, 1}

\* insertCustomerSchema: name of at least one character, tableNumber coerced
\* to a number of at least 1
insertCustomerSchemaOk(name, tableNumber) == name # "" /\ tableNumber >= 1

\* INSERT INTO customers ... RETURNING *: last_visit defaults to now()
createCustomer(rel, id, name, tableNumber, time) ==
  (id :> [id |-> id, name |-> name, tableNumber |-> tableNumber,
          lastVisit |-> time]) @@ rel

\* the ids of the rows SELECT ... WHERE name = $1 AND table_number = $2
\* matches; LIMIT 1 without ORDER BY returns any one of them
getCustomerByNameAndTable(name, tableNumber) ==
  {id \in DOMAIN customers :
     customers[id].name = name /\ customers[id].tableNumber = tableNumber}

\* UPDATE customers SET last_visit = now() WHERE id RETURNING *
updateCustomerLastVisit(rel, id, time) == [rel EXCEPT ![id].lastVisit = time]

\* POST /api/customers: the schema, then one insert
CreateCustomer(name, tableNumber) ==
  /\ customersSeq <= MaxCustomers
  /\ IF ~insertCustomerSchemaOk(name, tableNumber)
     THEN /\ custResp' = [code |-> 400]
          /\ UNCHANGED <<customers, customersSeq>>
     ELSE /\ customers' = createCustomer(customers, customersSeq, name,
                                         tableNumber, clock)
          /\ customersSeq' = customersSeq + 1
          /\ custResp' = [code |-> 201, customer |-> customers'[customersSeq]]
  /\ UNCHANGED <<csearch, clock>>

\* GET /api/customers/search up to its second await: 400 without name or
\* tableNumber, 404 when no row matches
SearchCustomer(name, tableNumber) ==
  /\ csearch.pc = "idle"
  /\ IF name = "" \/ tableNumber = NoTable
     THEN /\ custResp' = [code |-> 400]
          /\ UNCHANGED csearch
     ELSE IF getCustomerByNameAndTable(name, tableNumber) = {}
     THEN /\ custResp' = [code |-> 404]
          /\ UNCHANGED csearch
     ELSE /\ \E id \in getCustomerByNameAndTable(name, tableNumber) :
               csearch' = [pc |-> "touch", id |-> id]
          /\ custResp' = NoResp
  /\ UNCHANGED <<customers, customersSeq, clock>>

\* the search handler's updateCustomerLastVisit and its answer
SearchTouch ==
  /\ csearch.pc = "touch"
  /\ customers' = updateCustomerLastVisit(customers, csearch.id, clock)
  /\ custResp' = [code |-> 200, customer |-> customers'[csearch.id]]
  /\ csearch' = [pc |-> "idle"]
  /\ UNCHANGED <<customersSeq, clock>>

ServerTick ==
  /\ clock < MaxClock
  /\ clock' = clock + 1
  /\ UNCHANGED <<customers, customersSeq, csearch, custResp>>

InitCustVars ==
  /\ customers = Empty
  /\ customersSeq = 1
  /\ csearch = [pc |-> "idle"]
  /\ custResp = NoResp
  /\ clock = 1

NextCustomers ==
  \/ /\ \E n \in CustomerNameInputs, t \in CustomerTableInputs : CreateCustomer(n, t)
     /\ UNCHANGED <<orderVars, tableVars, kitchenVars, raceVars, cartVars, pageVars>>
  \/ /\ \E n \in CustomerNameInputs, t \in CustomerTableInputs : SearchCustomer(n, t)
     /\ UNCHANGED <<orderVars, tableVars, kitchenVars, raceVars, cartVars, pageVars>>
  \/ /\ SearchTouch
     /\ UNCHANGED <<orderVars, tableVars, kitchenVars, raceVars, cartVars, pageVars>>
  \/ /\ ServerTick
     /\ UNCHANGED <<orderVars, tableVars, kitchenVars, raceVars, cartVars, pageVars>>

(***************************************************************************)
(* The cart: cartReducer (lib/cart-context) and the Cart component's        *)
(* checkout (components/cart.tsx).  handleCheckout suspends at its await of *)
(* storeCustomerInfo for a dine-in order; the mutation function runs with   *)
(* the state of the latest render.  Each slot is one press of Place Order:  *)
(* idle before it, done once its handler and its mutation have ended.       *)
(***************************************************************************)
PressSlots == {1, 2}

NoPress == 0

\* the menu the customer pages show
CartMenu == (1 :> [price |-> 500]) @@ (2 :> [price |-> 350])

\* the name and table number typed into the cart form
CartCustomer == [name |-> "Ann", tableNumber |-> 1]

Max(a, b) == IF a >= b THEN a ELSE b

ClearCart == [type |-> "CLEAR_CART"]

cartReducer(items, action) ==
  CASE action.type = "ADD_ITEM" ->
         LET same == {i \in DOMAIN items :
                        items[i].menuItem.id = action.payload.menuItem.id}
         IN IF same # {}
            THEN [i \in DOMAIN items |->
                    IF i = CHOOSE j \in same : \A k \in same : j <= k
                    THEN [items[i] EXCEPT !.quantity = @ + action.payload.quantity]
                    ELSE items[i]]
            ELSE Append(items, action.payload)
    [] action.type = "REMOVE_ITEM" ->
         SelectSeq(items, LAMBDA it : it.menuItem.id # action.payload.menuItemId)
    [] action.type = "UPDATE_QUANTITY" ->
         [i \in DOMAIN items |->
            IF items[i].menuItem.id = action.payload.menuItemId
            THEN [items[i] EXCEPT !.quantity = action.payload.quantity]
            ELSE items[i]]
    [] action.type = "CLEAR_CART" -> <<>>
    [] OTHER -> items

\* (mutant) the total adds each item's price once, whatever its quantity
RECURSIVE totalAmountIgnoringQuantity(_)
totalAmountIgnoringQuantity(items) ==
  IF items = <<>> THEN 0
  ELSE Head(items).menuItem.price + totalAmountIgnoringQuantity(Tail(items))

\* state.items.reduce((total, item) => total + price * quantity, 0)
RECURSIVE totalAmount(_)
totalAmount(items) ==
  IF items = <<>> THEN 0
  ELSE Head(items).menuItem.price * Head(items).quantity + totalAmount(Tail(items))

\* the body the mutation function posts, split as the order store takes it
orderData(items, type) ==
  [head |-> [orderType |-> type,
             tableNumber |-> IF type = "dine_in" THEN CartCustomer.tableNumber
                             ELSE NoTable,
             totalAmount |-> Max(0, totalAmount(items)),
             status |-> "", priority |-> ""],
   body |-> [i \in DOMAIN items |->
               [menuItemId |-> items[i].menuItem.id,
                quantity |-> Max(1, items[i].quantity),
                price |-> Max(0, items[i].menuItem.price)]]]

\* handleCheckout's checks of the cart: not empty, no invalid item, a total
\* above 0
checkoutGuardsOk(items) ==
  /\ Len(items) # 0
  /\ \A i \in DOMAIN items :
       ~(items[i].menuItem.id = 0 \/ items[i].quantity < 1
         \/ items[i].menuItem.price < 0)
  /\ totalAmount(items) > 0

\* placeOrderMutation.isPending: the state of the latest mutation
isPending == latest # NoPress /\ press[latest].pc \in {"posting", "serving", "answered"}

\* the Place Order button is rendered for a cart with items and disabled
\* while isSubmitting || isPending
ButtonEnabled == cart # <<>> /\ ~(isSubmitting \/ isPending)

\* the rest of handleCheckout: the checks on the items of the render that
\* created the handler (seen), then placeOrderMutation.mutate(), whose
\* function builds the body from the current items and sets isSubmitting
Mutate(slot, seen) ==
  IF checkoutGuardsOk(seen)
  THEN /\ press' = [press EXCEPT ![slot] =
                      [pc |-> "posting", head |-> orderData(cart, orderType).head,
                       body |-> orderData(cart, orderType).body]]
       /\ isSubmitting' = TRUE
       /\ latest' = slot
  ELSE /\ press' = [press EXCEPT ![slot] = [pc |-> "done", code |-> 0]]
       /\ UNCHANGED <<isSubmitting, latest>>

\* a press of Place Order: handleCheckout up to its await of
\* storeCustomerInfo for dine-in, to its end for takeaway
PlaceOrder(slot) ==
  /\ press[slot].pc = "idle"
  /\ \A t \in PressSlots : press[t].pc = "idle" => slot <= t
  /\ ButtonEnabled
  /\ IF orderType = "dine_in"
     THEN /\ press' = [press EXCEPT ![slot] = [pc |-> "saving", items |-> cart]]
          /\ UNCHANGED <<isSubmitting, latest>>
     ELSE Mutate(slot, cart)
  /\ UNCHANGED <<cart, orderType>>

\* POST /api/customers of storeCustomerInfo is handled and answered, and
\* handleCheckout resumes
CustomerSaved(slot) ==
  /\ press[slot].pc = "saving"
  /\ CreateCustomer(CartCustomer.name, CartCustomer.tableNumber)
  /\ Mutate(slot, press[slot].items)
  /\ UNCHANGED <<cart, orderType>>

\* POST /api/orders of the mutation reaches the server
SendOrder(slot) ==
  /\ press[slot].pc = "posting"
  /\ SomeAllowed("createOrder")
  /\ BeginCreateOrderWith(press[slot].head, press[slot].body)
  /\ press' = [press EXCEPT ![slot] =
                 IF resp'.code = 400 THEN [pc |-> "answered", code |-> 400]
                 ELSE [pc |-> "serving"]]
  /\ UNCHANGED <<cart, orderType, isSubmitting, latest>>

ServeItems(slot) ==
  /\ press[slot].pc = "serving"
  /\ TxInsertItems
  /\ press' = IF tx'.pc = "idle"
              THEN [press EXCEPT ![slot] = [pc |-> "answered", code |-> resp'.code]]
              ELSE press
  /\ UNCHANGED <<cart, orderType, isSubmitting, latest>>

ServeCommit(slot) ==
  /\ press[slot].pc = "serving"
  /\ TxCommit
  /\ press' = [press EXCEPT ![slot] = [pc |-> "answered", code |-> resp'.code]]
  /\ UNCHANGED <<cart, orderType, isSubmitting, latest>>

\* the answer arrives: onSuccess clears the cart, onSettled resets
\* isSubmitting
Settle(slot) ==
  /\ press[slot].pc = "answered"
  /\ cart' = IF press[slot].code = 201 THEN cartReducer(cart, ClearCart) ELSE cart
  /\ isSubmitting' = FALSE
  /\ press' = [press EXCEPT ![slot] = [pc |-> "done", code |-> press[slot].code]]
  /\ UNCHANGED <<orderType, latest>>

\* ADD_ITEM with a menu item as the menu query returned it
AddToCart(id, quantity) ==
  /\ id \in DOMAIN menuItems
  /\ \A i \in DOMAIN cart :
       cart[i].menuItem.id = id => cart[i].quantity + quantity <= MaxQuantity
  /\ cart' = cartReducer(cart, [type |-> "ADD_ITEM",
                                payload |-> [menuItem |-> [id |-> id,
                                                           price |-> menuItems[id].price],
                                             quantity |-> quantity]])
  /\ UNCHANGED <<orderType, isSubmitting, press, latest>>

RemoveFromCart(id) ==
  /\ \E i \in DOMAIN cart : cart[i].menuItem.id = id
  /\ cart' = cartReducer(cart, [type |-> "REMOVE_ITEM",
                                payload |-> [menuItemId |-> id]])
  /\ UNCHANGED <<orderType, isSubmitting, press, latest>>

SetOrderType(type) ==
  /\ type # orderType
  /\ orderType' = type
  /\ UNCHANGED <<cart, isSubmitting, press, latest>>

InitCartVars ==
  /\ cart = <<>>
  /\ orderType = "dine_in"
  /\ isSubmitting = FALSE
  /\ press = [s \in PressSlots |-> [pc |-> "idle"]]
  /\ latest = NoPress

\* the order store with the menu on offer and no order
InitCartStore ==
  /\ menuItems = CartMenu
  /\ menuSeq = 3
  /\ orders = Empty
  /\ orderItems = {}
  /\ ordersSeq = 1
  /\ orderItemsSeq = 1
  /\ tx = [pc |-> "idle"]
  /\ reader = [pc |-> "idle"]
  /\ resp = NoResp
  /\ submitted = Empty

NextCart ==
  \/ /\ \E s \in PressSlots : PlaceOrder(s)
     /\ UNCHANGED <<orderVars, tableVars, kitchenVars, raceVars, custVars, pageVars>>
  \/ /\ \E s \in PressSlots : CustomerSaved(s)
     /\ UNCHANGED <<orderVars, tableVars, kitchenVars, raceVars, pageVars>>
  \/ /\ \E s \in PressSlots : SendOrder(s)
     /\ UNCHANGED <<tableVars, kitchenVars, raceVars, custVars, pageVars>>
  \/ /\ \E s \in PressSlots : ServeItems(s)
     /\ UNCHANGED <<tableVars, kitchenVars, raceVars, custVars, pageVars>>
  \/ /\ \E s \in PressSlots : ServeCommit(s)
     /\ UNCHANGED <<tableVars, kitchenVars, raceVars, custVars, pageVars>>
  \/ /\ \E s \in PressSlots : Settle(s)
     /\ UNCHANGED <<orderVars, tableVars, kitchenVars, raceVars, custVars, pageVars>>
  \/ /\ \E m \in DOMAIN CartMenu, q \in 1..MaxQuantity : AddToCart(m, q)
     /\ UNCHANGED <<orderVars, tableVars, kitchenVars, raceVars, custVars, pageVars>>
  \/ /\ \E m \in DOMAIN CartMenu : RemoveFromCart(m)
     /\ UNCHANGED <<orderVars, tableVars, kitchenVars, raceVars, custVars, pageVars>>
  \/ /\ \E t \in Range(orderTypes) : SetOrderType(t)
     /\ UNCHANGED <<orderVars, tableVars, kitchenVars, raceVars, custVars, pageVars>>

Init ==
  /\ InitOrderVars /\ InitTableVars /\ InitKitchenVars /\ InitRaceVars
  /\ InitCustVars /\ InitCartVars /\ InitPageVars

Next == NextOrders

Spec == Init /\ [][Next]_vars

SpecCreate == Init /\ [][NextCreate]_vars

SpecTables == Init /\ [][NextTables]_vars

\* the kitchen display over every list GET /api/orders may answer
InitKitchen ==
  /\ InitOrderVars /\ InitTableVars /\ InitDisplay /\ InitRaceVars
  /\ InitCustVars /\ InitCartVars /\ InitPageVars

SpecKitchen == InitKitchen /\ [][NextKitchen]_vars

\* the kitchen display over rows of any estimatedReadyTime, as time passes
InitOverdue ==
  /\ InitOrderVars /\ InitTableVars /\ InitTimed /\ InitRaceVars
  /\ InitCustVars /\ InitCartVars /\ InitPageVars

SpecOverdue == InitOverdue /\ [][NextKitchen]_vars

SpecRace == Init /\ [][NextRace]_vars

SpecCustomers == Init /\ [][NextCustomers]_vars

\* getNextStatus over rows of every status
InitAdvance ==
  /\ InitOrderVars /\ InitTableVars /\ InitRaceVars
  /\ InitCustVars /\ InitCartVars /\ InitPageVars
  /\ \E n \in 0..MaxDisplay :
       \E l \in [1..n -> AnyStatusColumns] : fetched = WithIds(l)
  /\ sortBy = "priority"
  /\ shown = <<>>
  /\ now = 1
  /\ overdue = Badges(<<>>, 1)

SpecAdvance == InitAdvance /\ [][NextAdvance]_vars

SpecLayout == Init /\ [][NextLayout]_vars

\* the cart of a customer page over the menu on offer
InitCart ==
  /\ InitCartStore /\ InitTableVars /\ InitKitchenVars /\ InitRaceVars
  /\ InitCustVars /\ InitCartVars /\ InitPageVars

SpecCart == InitCart /\ [][NextCart]_vars

(***************************************************************************)
(* Properties of the order store (checked under Spec).                      *)
(***************************************************************************)
\* <<menuItemId, quantity, price>> of a row or of a submitted line item
Triple(x) == <<x.menuItemId, x.quantity, x.price>>

\* the rows are the submitted line items, one row per item
SameItems(rows, body) ==
  /\ Cardinality(rows) = Len(body)
  /\ \A t \in {Triple(r) : r \in rows} \cup {Triple(body[i]) : i \in DOMAIN body} :
       Cardinality({r \in rows : Triple(r) = t})
         = Cardinality({i \in DOMAIN body : Triple(body[i]) = t})

\* C1: createOrder is all-or-nothing.  In every state, also after a create
\* failed part-way, each stored order row has exactly the line-item rows its
\* request submitted, and no line-item row exists without its order row.
C1_AllOrNothing ==
  /\ \A id \in DOMAIN orders :
       /\ id \in DOMAIN submitted
       /\ SameItems(ItemsOf(orderItems, id), submitted[id])
  /\ \A r \in orderItems : r.orderId \in DOMAIN orders

\* a create whose line-item insert was rejected (its ids were drawn, its rows
\* are gone) next to a stored order with two line items
C1_Witness ==
  /\ tx.pc = "idle"
  /\ \E id \in 1..(ordersSeq - 1) : id \notin DOMAIN orders
  /\ orderItemsSeq - 1 > Cardinality(orderItems)
  /\ \E id \in DOMAIN orders : Cardinality(ItemsOf(orderItems, id)) = 2

RealItems(items) == {i \in items : i # JsonNull}

\* C2: no reader (getOrder, getActiveOrders, getCompletedOrders) returns an
\* order without line items, whatever create is in flight.
C2_ReadersSeeItems ==
  /\ "items" \in DOMAIN resp => resp.items # {}
  /\ "orders" \in DOMAIN resp =>
       \A k \in DOMAIN resp.orders : RealItems(resp.orders[k].items) # {}

\* a getOrder that selected the order row, then its items after another
\* create had inserted its rows and not yet committed
C2_Witness ==
  /\ "items" \in DOMAIN resp
  /\ tx.pc = "items"

\* C5 (as claimed): once completed or cancelled, an order keeps that status.
C5_TerminalIsFinal ==
  [][\A id \in DOMAIN orders :
       orders[id].status \in {"completed", "cancelled"}
         => orders'[id].status = orders[id].status]_vars

\* C6: for an authorized caller and an existing order in a non-terminal
\* status, a transition to any of the six statuses is answered 200 and stores
\* exactly that status, with no check of the current status: forward,
\* skipping (confirmed to completed) or backward (ready to pending).
C6_AnyTransitionAccepted ==
  /\ \A c \in {"manager", "chef", "kitchen_staff"} : Allowed("status", c)
  /\ \A id \in DOMAIN orders, s \in Range(orderStatuses) :
       orders[id].status \in {"pending", "confirmed", "preparing", "ready"}
         => /\ patchStatusCode(id, s) = 200
            /\ updateOrderStatus(orders, id, s)[id].status = s
  /\ ("to" \in DOMAIN resp
        /\ resp.from \in {"pending", "confirmed", "preparing", "ready"})
       => /\ resp.code = 200
          /\ resp.order.status = resp.to
          /\ orders[resp.order.id].status = resp.to

\* a backward move, ready to pending, was accepted
C6_Witness ==
  /\ "to" \in DOMAIN resp
  /\ resp.code = 200
  /\ resp.from = "ready"
  /\ resp.to = "pending"
  /\ orders[resp.order.id].status = "pending"

ListedIds(list) == {list[k].order.id : k \in DOMAIN list}

\* C7: the two listings partition the stored orders: the active listing
\* holds exactly the pending/confirmed/preparing/ready orders, the history
\* listing exactly the completed/cancelled ones, each order once, and every
\* stored order is in exactly one of them.
C7_Partition ==
  /\ ListedIds(getActiveOrders) =
       {id \in DOMAIN orders :
          orders[id].status \in {"pending", "confirmed", "preparing", "ready"}}
  /\ ListedIds(getCompletedOrders) =
       {id \in DOMAIN orders : orders[id].status \in {"completed", "cancelled"}}
  /\ Len(getActiveOrders) = Cardinality(ListedIds(getActiveOrders))
  /\ Len(getCompletedOrders) = Cardinality(ListedIds(getCompletedOrders))
  /\ \A id \in DOMAIN orders :
       (id \in ListedIds(getActiveOrders)) # (id \in ListedIds(getCompletedOrders))
  /\ ("orders" \in DOMAIN resp /\ resp.type = "history")
       => resp.orders = getCompletedOrders
  /\ ("orders" \in DOMAIN resp /\ resp.type = "active")
       => resp.orders = getActiveOrders

\* the history listing was served with one order while another is ready
C7_Witness ==
  /\ "orders" \in DOMAIN resp
  /\ resp.type = "history"
  /\ Len(resp.orders) = 1
  /\ \E id \in DOMAIN orders : orders[id].status = "ready"

\* C8: getOrder returns as many items as the create submitted, each with the
\* submitted menuItemId, quantity and price, whatever happened in between.
C8_RoundTrip ==
  "items" \in DOMAIN resp =>
    /\ resp.id \in DOMAIN submitted
    /\ SameItems({i.orderItem : i \in resp.items}, submitted[resp.id])

\* getOrder of a two-item order after the menu price and the status changed
C8_Witness ==
  /\ "items" \in DOMAIN resp
  /\ Cardinality(resp.items) = 2
  /\ \E i \in resp.items : i.menuItem.price = 650 /\ i.orderItem.price = 350
  /\ orders[resp.id].status = "ready"

\* C9 (as claimed): a priority update with one of the four levels on an
\* existing order succeeds and stores that priority, nothing else changing.
C9_SetPriorityTakesEffect ==
  [][\A c \in staffRoles, id \in DOMAIN orders, p \in Range(orderPriorities) :
       PatchOrderPriority(c, id, p)
         => (/\ resp'.code = 200
             /\ orders'[id] = [orders[id] EXCEPT !.priority = p])]_vars

\* C22 (as claimed): an estimated-time update with a timestamp on an existing
\* order succeeds, stores the timestamp as the order's estimatedReadyTime and
\* changes no other column and no line item.
C22_SetEstimatedTimeTakesEffect ==
  [][\A id \in DOMAIN orders, t \in EstimateInputs \ {NullTime} :
       SetEstimatedTime(id, t)
         => (/\ resp'.code = 200
             /\ orders'[id] = [estimatedReadyTime |-> t] @@ orders[id]
             /\ UNCHANGED orderItems)]_vars

\* C12: a status request whose status is missing or outside the six enum
\* values is answered 400 and nothing stored changes: not the order's
\* status, not any other row.
C12_InvalidStatusRejected ==
  [][\A id \in OrderIds, s \in StatusInputs \ Range(orderStatuses) :
       SetOrderStatus(id, s)
         => /\ resp'.code = 400
            /\ UNCHANGED <<orders, orderItems, menuItems, ordersSeq,
                           orderItemsSeq, menuSeq>>]_vars

\* the 400 of the status route (it lists the valid statuses) while an order
\* that is no longer pending is stored
C12_Witness ==
  /\ resp.code = 400
  /\ "validStatuses" \in DOMAIN resp
  /\ \E id \in DOMAIN orders : orders[id].status = "preparing"

\* C13: an update or delete addressed to an id that resolves to no row
\* (order status, order priority, order estimated time, table update, table
\* status, table delete) is answered 404 and leaves storage unchanged.
C13_MissingIdIsNotFound ==
  [][/\ \A id \in OrderIds \ DOMAIN orders :
          (\/ \E s \in Range(orderStatuses) : SetOrderStatus(id, s)
           \/ \E p \in Range(orderPriorities) : SetOrderPriority(id, p)
           \/ \E t \in EstimateInputs \ {NullTime} : SetEstimatedTime(id, t))
            => resp'.code = 404 /\ UNCHANGED <<orders, orderItems>>
     /\ \A id \in (1..MaxTables) \ DOMAIN tables :
          (\/ \E p \in TablePatches : UpdateTable(id, p)
           \/ \E st \in Range(tableStatuses) : UpdateTableStatus(id, st, NoName)
           \/ DeleteTable(id))
            => tableResp'.code = 404 /\ UNCHANGED tables]_vars

\* C15: an order's status changes only through a status request of a caller
\* whose role is manager, chef or kitchen_staff: the status route refuses an
\* unauthenticated caller and every other role, a refused request leaves
\* the orders as they are, and no other step changes a stored status.
C15_StatusOnlyByKitchenRoles ==
  /\ [](\A c \in Callers :
          Allowed("status", c) <=> c \in {"manager", "chef", "kitchen_staff"})
  /\ [][/\ \A id \in DOMAIN orders :
            (id \notin DOMAIN orders' \/ orders'[id].status # orders[id].status)
              => /\ "to" \in DOMAIN resp'
                 /\ resp'.code = 200
                 /\ resp'.order.id = id
                 /\ id \in DOMAIN orders'
                 /\ orders'[id].status = resp'.to
        /\ resp'.code \in {401, 403} => UNCHANGED orders]_vars

\* a refusal (what a status request of a server or of an unauthenticated
\* caller gets) while an order that is being prepared is stored
C15_Witness ==
  /\ resp.code = 403
  /\ ~Allowed("status", "server")
  /\ RouteGuard("status", "server") = 403
  /\ RouteGuard("status", "anonymous") = 401
  /\ \E id \in DOMAIN orders : orders[id].status = "confirmed"

\* C18: a line item's price is a snapshot: no step changes a committed
\* order_items row (so a menu price update leaves it alone), while the menu
\* item joined to it in a getOrder answer carries the menu's current price.
C18_PriceIsSnapshot ==
  /\ []("items" \in DOMAIN resp =>
          \A i \in resp.items :
            /\ i.orderItem \in orderItems
            /\ i.menuItem.id = i.orderItem.menuItemId
            /\ i.menuItem.price = menuItems[i.menuItem.id].price)
  /\ [][\A r \in ReadOrderItems : r \in ReadOrderItems']_vars

\* getOrder after a menu price update: the line keeps 500 and the joined
\* menu item shows the new 650
C18_Witness ==
  /\ "items" \in DOMAIN resp
  /\ \E i \in resp.items :
       /\ i.orderItem.price = 500
       /\ i.menuItem.price = 650
       /\ menuItems[i.orderItem.menuItemId].price = 650
       /\ i.orderItem \in orderItems

(***************************************************************************)
(* Properties of concurrent status requests (checked under SpecRace).       *)
(***************************************************************************)
\* C19: a status request whose UPDATE finds the order's row succeeds and
\* stores its status whatever other requests wrote since it arrived (no
\* request is refused because the order changed), and the stored status of
\* an order is the status of the request whose write was applied last.
C19_LastWriteWins ==
  /\ [](\A id \in DOMAIN orders :
          lastWrite[id] # NoSlot =>
            /\ sreq[lastWrite[id]].code = 200
            /\ orders[id].status = sreq[lastWrite[id]].status)
  /\ [](\A s \in StatusSlots :
          (sreq[s].pc = "done" /\ sreq[s].seen # "") => sreq[s].code \in {200, 400})
  /\ [][\A s \in StatusSlots :
          (ApplyStatus(s) /\ sreq[s].id \in DOMAIN orders)
            => /\ sreq'[s].code = 200
               /\ orders'[sreq[s].id].status = sreq[s].status
               /\ lastWrite'[sreq[s].id] = s]_vars

\* two requests that both arrived while order 1 was pending, both answered
\* 200; request 1 was applied last and its status is the stored one
C19_Witness ==
  /\ \A s \in StatusSlots :
       /\ sreq[s].pc = "done" /\ sreq[s].code = 200
       /\ sreq[s].id = 1 /\ sreq[s].seen = "pending"
  /\ sreq[1].status = "preparing" /\ sreq[2].status = "cancelled"
  /\ lastWrite[1] = 1
  /\ orders[1].status = "preparing"

(***************************************************************************)
(* Properties of the cart checkout (checked under SpecCart).                *)
(***************************************************************************)
\* sum of price x quantity over the line items of a request body
RECURSIVE LinesTotal(_)
LinesTotal(body) ==
  IF body = <<>> THEN 0
  ELSE Head(body).price * Head(body).quantity + LinesTotal(Tail(body))

\* sum of price x quantity over a set of order_items rows
RECURSIVE RowsTotal(_)
RowsTotal(rows) ==
  IF rows = {} THEN 0
  ELSE LET r == CHOOSE x \in rows : TRUE
       IN r.price * r.quantity + RowsTotal(rows \ {r})

\* C21: every order the cart checkout creates has a totalAmount equal to the
\* sum of price x quantity over its submitted line items, and so has every
\* create request the cart sends.
C21_TotalIsSumOfLines ==
  /\ \A id \in DOMAIN orders :
       /\ orders[id].totalAmount = LinesTotal(submitted[id])
       /\ orders[id].totalAmount = RowsTotal(ItemsOf(orderItems, id))
  /\ \A s \in PressSlots :
       press[s].pc = "posting" => press[s].head.totalAmount = LinesTotal(press[s].body)

\* a stored order of 2 items at 500 and 1 item at 350 with a total of 1350
C21_Witness ==
  \E id \in DOMAIN orders :
    /\ orders[id].totalAmount = 1350
    /\ {<<r.quantity, r.price>> : r \in ItemsOf(orderItems, id)}
         = {<<2, 500>>, <<1, 350>>}

\* C30 (as claimed): one checkout creates at most one order, whatever the
\* interleaving of Place Order presses with the pending customer-save and
\* order-create requests: an order beyond the first exists only after an
\* earlier order's answer has arrived and cleared the cart, and no two
\* order-create requests of the cart are pending together.
C30_OneOrderPerCheckout ==
  LET cleared == {s \in PressSlots : press[s].pc = "done" /\ press[s].code = 201}
      pending == {s \in PressSlots : press[s].pc \in {"posting", "serving", "answered"}}
  IN /\ Cardinality(DOMAIN orders) <= Cardinality(cleared) + 1
     /\ Cardinality(pending) <= 1

(***************************************************************************)
(* Properties of the advance button (checked under SpecAdvance).            *)
(***************************************************************************)
\* C24 (as claimed): for every status of the enum, getNextStatus is the
\* status that follows it in [pending, confirmed, preparing, ready], and
\* null for ready, completed and cancelled.
C24_NextStatusFollowsFlow ==
  \A i \in DOMAIN fetched :
    fetched[i].id \in DOMAIN proposed =>
      proposed[fetched[i].id] =
        CASE fetched[i].status = "pending" -> "confirmed"
          [] fetched[i].status = "confirmed" -> "preparing"
          [] fetched[i].status = "preparing" -> "ready"
          [] OTHER -> NullStatus

(***************************************************************************)
(* Properties of the table map (checked under SpecLayout).                  *)
(***************************************************************************)
\* the cells a table covers: its width x height span
Covered(t) ==
  (t.positionX..(t.positionX + t.width - 1))
    \X (t.positionY..(t.positionY + t.height - 1))

\* the cells of the grid no table of the layout covers
FreeCells(data) ==
  {c \in GridCells : \A i \in DOMAIN data : c \notin Covered(data[i])}

\* C28 (as claimed): while a free cell exists, findFirstAvailablePosition
\* returns the first cell in row-major order that no table's width x height
\* span covers.
C28_FirstUncoveredCell ==
  FreeCells(layout) # {} =>
    LET found == findFirstAvailablePosition(layout)
    IN /\ <<found.x, found.y>> \in FreeCells(layout)
       /\ \A c \in FreeCells(layout) : ScanIndex(<<found.x, found.y>>) <= ScanIndex(c)

(***************************************************************************)
(* Properties of the customer profiles (checked under SpecCustomers).       *)
(***************************************************************************)
\* C23 (as claimed): there is at most one customers row per (name,
\* tableNumber); a search that finds the customer sets the row's lastVisit
\* to the current time, and a search answered 404 changes nothing.
C23_OneRowPerNameAndTable ==
  /\ [](\A a, b \in DOMAIN customers :
          (/\ customers[a].name = customers[b].name
           /\ customers[a].tableNumber = customers[b].tableNumber) => a = b)
  /\ [][/\ SearchTouch => customers'[csearch.id].lastVisit = clock
        /\ custResp'.code = 404 => UNCHANGED customers]_vars

(***************************************************************************)
(* Properties of order creation (checked under SpecCreate).                 *)
(***************************************************************************)
\* C16: every stored order has a table number if and only if it is a
\* dine-in order.
C16_TableNumberIffDineIn ==
  \A id \in DOMAIN orders :
    (orders[id].tableNumber # NoTable) <=> (orders[id].orderType = "dine_in")

\* C17: a create request with an empty list of line items is refused before
\* any storage call (no transaction is ever opened for it), and every
\* stored order has at least one line item.
C17_EmptyItemsRefused ==
  /\ tx.pc # "idle" => tx.body # <<>>
  /\ \A id \in DOMAIN orders : ItemsOf(orderItems, id) # {}

\* C20: every order a create returns has status pending and priority
\* medium, whatever the request carried, and an id no stored order had
\* before; the stored row is the returned one.
C20_CreatedPendingMedium ==
  /\ tx.pc # "idle"
       => /\ tx.row.status = "pending"
          /\ tx.row.priority = "medium"
          /\ tx.row.id \notin DOMAIN orders
  /\ (resp.code = 201 /\ "head" \in DOMAIN resp)
       => /\ resp.order.status = "pending"
          /\ resp.order.priority = "medium"
          /\ orders[resp.order.id] = resp.order
          /\ \A id \in DOMAIN orders \ {resp.order.id} : id < resp.order.id

\* a second order was returned for a request that carried status completed
\* and priority urgent
C20_Witness ==
  /\ resp.code = 201
  /\ "head" \in DOMAIN resp
  /\ resp.head.status = "completed"
  /\ resp.head.priority = "urgent"
  /\ resp.order.status = "pending"
  /\ Cardinality(DOMAIN orders) = 2

(***************************************************************************)
(* Properties of the table registry (checked under SpecTables).             *)
(***************************************************************************)
UniqueTableNumbers ==
  \A a, b \in DOMAIN tables : a # b => tables[a].tableNumber # tables[b].tableNumber

\* two POST requests that were both past the pre-check with one number at
\* the same time, and were both answered 201
BothCreated ==
  \E s, t \in CreateSlots :
    /\ s # t
    /\ creq[s].rival /\ creq[t].rival
    /\ creq[s].pc = "idle" /\ creq[t].pc = "idle"
    /\ creq[s].code = 201 /\ creq[t].code = 201
    /\ creq[s].tableNumber = creq[t].tableNumber

\* C3 (as stated): after any interleaving of createTable, updateTable,
\* updateTableStatus and deleteTable requests no two rows, active or not,
\* have the same tableNumber, and of several concurrent creations of one
\* number at most one succeeds.
C3_AtMostOneSucceeds == UniqueTableNumbers /\ ~BothCreated

\* C3 (amended): no two rows, active or not, ever have the same tableNumber;
\* a creation succeeds only while no row holds its number, so of several
\* concurrent creations of one number a second one succeeds only after
\* updateTable has moved the first one's row to another number.
C3_UniqueTableNumber ==
  /\ UniqueTableNumbers
  /\ \A s \in CreateSlots :
       (creq[s].pc = "idle" /\ creq[s].code = 201 /\ tableResp.code = 201
          /\ creq[s].id = tablesSeq - 1)
         => \A id \in DOMAIN tables \ {creq[s].id} :
              tables[id].tableNumber # creq[s].tableNumber
  /\ \A s, t \in CreateSlots :
       (/\ s # t
        /\ creq[s].rival /\ creq[t].rival
        /\ creq[s].pc = "idle" /\ creq[t].pc = "idle"
        /\ creq[s].code = 201 /\ creq[t].code = 201
        /\ creq[s].tableNumber = creq[t].tableNumber)
         => \/ tables[creq[s].id].tableNumber # creq[s].tableNumber
            \/ tables[creq[t].id].tableNumber # creq[t].tableNumber

\* two concurrent creations of one number passed both existence checks; one
\* inserted its row and the unique column refused the other's insert
C3_Witness ==
  \E s, t \in CreateSlots :
    /\ creq[s].rival /\ creq[t].rival
    /\ creq[s].tableNumber = creq[t].tableNumber
    /\ creq[s].pc = "idle" /\ creq[s].code = 201
    /\ creq[t].pc = "idle" /\ creq[t].code = 500
    /\ tableResp.code = 500
    /\ tables[creq[s].id].tableNumber = creq[s].tableNumber

\* C14: a table creation that is rejected because its number is taken is
\* answered 400 with the marker duplicate_table_number and never 500, also
\* when two requests pass the existence checks before either insert.
C14_DuplicateIsMarked ==
  \A s \in CreateSlots :
    (creq[s].pc = "idle" /\ creq[s].code \notin {0, 201})
      => /\ creq[s].code = DuplicateAnswer.code
         /\ DuplicateAnswer.error = "duplicate_table_number"

\* C4: once deleteTable has soft-deleted a table with number n, no later
\* createTable with number n succeeds, whatever table operations happen in
\* between: no row is ever inserted with a number deleteTable retired.
C4_NumberStaysReserved ==
  [][\A id \in DOMAIN tables' \ DOMAIN tables :
       tables'[id].tableNumber \notin retired]_vars

\* C26: deleteTable of an existing table sets isActive to false and changes
\* nothing else: the row and its other columns remain, no other row changes
\* and the number of rows is the same; the table is then absent from
\* getTables, still returned by getTable, and deleting it again finds its
\* row.  After a DELETE answered 204 the retired row is still stored.
C26_SoftDelete ==
  /\ \A id \in DOMAIN tables :
       LET after == deleteTable(tables, id)
       IN /\ DOMAIN after = DOMAIN tables
          /\ after[id] = [tables[id] EXCEPT !.isActive = FALSE]
          /\ \A o \in DOMAIN tables \ {id} : after[o] = tables[o]
          /\ id \notin getTables(after)
          /\ getTable(after, id) = {after[id]}
          /\ deleteTable(after, id) = after
  /\ tableResp.code = 204 =>
       \E id \in DOMAIN tables \ getTables(tables) :
         getTable(tables, id) # {} /\ tables[id].tableNumber \in retired

\* a DELETE answered 204: the occupied table 1 is inactive and still stored,
\* table 2 is active
C26_Witness ==
  /\ tableResp.code = 204
  /\ 1 \in DOMAIN tables /\ 2 \in DOMAIN tables
  /\ ~tables[1].isActive /\ tables[1].status = "occupied"
  /\ getTables(tables) = {2}
  /\ getTable(tables, 1) = {tables[1]}

\* C27 (as claimed): a table-status update to occupied that supplies
\* customerName n and succeeds stores n as the table's customerName and
\* occupied as its status, and changes no other table's row.
C27_OccupiedStoresCustomerName ==
  [][\A id \in DOMAIN tables, n \in TableCustomerNames \ {NoName} :
       UpdateTableStatus(id, "occupied", n)
         => /\ tableResp'.code = 200
            /\ tables'[id].status = "occupied"
            /\ tables'[id].customerName = n
            /\ \A o \in DOMAIN tables \ {id} : tables'[o] = tables[o]]_vars

\* C29 (as claimed): with no creation in flight, a creation with the number
\* findNextAvailableTableNumber suggests from the current tables query is
\* not refused as a duplicate.
C29_SuggestedNumberIsFree ==
  [][\A s \in CreateSlots :
       (/\ InFlight = {}
        /\ BeginCreateTable(s, findNextAvailableTableNumber(tablesQuery(tables))))
         => tableResp' # DuplicateAnswer]_vars

(***************************************************************************)
(* Properties of the kitchen display (checked under SpecKitchen).           *)
(***************************************************************************)
Priorities(list) == [i \in DOMAIN list |-> list[i].priority]

\* the display has rendered the fetched data in its current mode
Rendered == shown # <<>> \/ activeOrders(fetched) = <<>>

\* C10: in priority mode the kitchen queue is the displayed orders sorted by
\* priority rank urgent < high < medium < low, orders of equal priority in
\* ascending createdAt order; orders created as [low, urgent, medium] are
\* shown as [urgent, medium, low].
C10_PriorityModeSorted ==
  (sortBy = "priority" /\ Rendered)
    => /\ {shown[i] : i \in DOMAIN shown}
            = {o \in Range(fetched) : o.status \in {"pending", "confirmed", "preparing"}}
       /\ Len(shown) = Cardinality({shown[i] : i \in DOMAIN shown})
       /\ \A i, j \in DOMAIN shown :
            i < j =>
              LET rank == [urgent |-> 0, high |-> 1, medium |-> 2, low |-> 3]
              IN \/ rank[shown[i].priority] < rank[shown[j].priority]
                 \/ /\ shown[i].priority = shown[j].priority
                    /\ shown[i].createdAt <= shown[j].createdAt
       /\ (/\ Priorities(fetched) = <<"low", "urgent", "medium">>
           /\ activeOrders(fetched) = fetched)
            => Priorities(shown) = <<"urgent", "medium", "low">>

\* orders created as [low, urgent, medium], all displayed, shown reordered
C10_Witness ==
  /\ sortBy = "priority"
  /\ Priorities(fetched) = <<"low", "urgent", "medium">>
  /\ fetched[1].createdAt < fetched[2].createdAt
  /\ fetched[2].createdAt < fetched[3].createdAt
  /\ Priorities(shown) = <<"urgent", "medium", "low">>
  /\ <<shown[1].id, shown[2].id, shown[3].id>> = <<2, 3, 1>>

\* C25 (as claimed): a rendered kitchen queue holds each fetched order whose
\* status is pending, confirmed, preparing or ready exactly once, and no
\* completed or cancelled order.
C25_QueueIsTheActiveOrders ==
  shown # <<>> =>
    /\ {shown[i] : i \in DOMAIN shown}
         = {o \in Range(fetched) : o.status \in activeStatuses}
    /\ Len(shown) = Cardinality({shown[i] : i \in DOMAIN shown})

(***************************************************************************)
(* Properties of the overdue badge (checked under SpecOverdue).             *)
(***************************************************************************)
OrderColumns == {"id", "status", "priority", "createdAt", "estimatedReadyTime"}

\* C11: at every render an order's card is flagged overdue if and only if
\* its estimatedReadyTime is set and is earlier than the time of the render;
\* an order without estimatedReadyTime is never flagged; the flag is
\* computed anew by each render and is no field of the order.
C11_OverdueIffPastDue ==
  /\ DOMAIN overdue.flags = DOMAIN shown
  /\ \A i \in DOMAIN shown :
       /\ overdue.flags[i] =
            (\E t \in 1..MaxClock :
               shown[i].estimatedReadyTime = t /\ t < overdue.at)
       /\ shown[i].estimatedReadyTime = NullTime => ~overdue.flags[i]
       /\ DOMAIN shown[i] = OrderColumns
  /\ \A i \in DOMAIN fetched : DOMAIN fetched[i] = OrderColumns

\* a render at time 3 with one card past due, one due exactly now and one
\* without estimatedReadyTime
C11_Witness ==
  /\ overdue.at = 3
  /\ \E i, j, k \in DOMAIN shown :
       /\ shown[i].estimatedReadyTime = 2 /\ overdue.flags[i]
       /\ shown[j].estimatedReadyTime = 3 /\ ~overdue.flags[j]
       /\ shown[k].estimatedReadyTime = NullTime /\ ~overdue.flags[k]

====
